---- MODULE Spec2Model ----
(***************************************************************************)
(* caiso_scraper.py: scrape_daterange splits [startdate, enddate] into     *)
(* chunks, fetches each chunk through scrape_singlezip with a retry cap,   *)
(* and writes the sorted concatenation of the collected series to a file.  *)
(*                                                                         *)
(* Dates are day numbers (the script truncates its date arguments to whole *)
(* days, parse_args lines 34-35).  A price series is a sequence of         *)
(* [t, price] rows; a timestamp t is the day number of the                 *)
(* interval start.  One action models one iteration of the while loop.     *)
(***************************************************************************)
EXTENDS Integers, Sequences, FiniteSets

VARIABLES
    market,             \* argument market
    startdate,          \* argument startdate
    enddate,            \* argument enddate
    max_n_attempts,     \* argument max_n_attempts
    cache_continuously, \* argument cache_continuously
    pc,                 \* "start", "loop", "done" (returned), "aborted" (exception left the call)
    chunk_starts,       \* line 126, a sequence of dates
    attempt_srs,        \* line 128, chunk start -> attempts (-1 after a success)
    completion_srs,     \* line 129, chunk start -> completion flag
    result_srs,         \* line 131, the series the function returns
    results_dict,       \* line 132, insertion-ordered: sequence of [key, srs]
    i,                  \* line 134, position of the scan
    ts,                 \* lines 142-147, start of the window fetched last
    te,                 \* lines 142-147, end of the window fetched last
    df,                 \* line 155, what scrape_singlezip returned last
    file,               \* the output file of line 182
    n_fetch,            \* observation: chunk start -> HTTP requests issued for it
    queried,            \* observation: the [i, ts, te] passed to get_query_params
    warned,             \* observation: get_query_params printed the oversized-window advisory
    n_sleep,            \* observation: calls of time.sleep (line 174)
    fetch_at,           \* observation: n_sleep when the last HTTP request was issued
    response,           \* observation: r of line 88, the answer to the last HTTP request
    entry,              \* how the program was entered: "cli", "scrape_daterange", "get_query_params"
    run,                \* 1, or 2 when the same call is made a second time
    first_run           \* what the first of two calls returned, wrote and queried

vars == <<market, startdate, enddate, max_n_attempts, cache_continuously, pc,
          chunk_starts, attempt_srs, completion_srs, result_srs, results_dict,
          i, ts, te, df, file, n_fetch, queried, warned, n_sleep, fetch_at,
          response, entry, run, first_run>>

session == <<entry, run, first_run>>

args == <<market, startdate, enddate, max_n_attempts, cache_continuously>>

(***************************************************************************)
(* Bounds of the model.                                                    *)
(***************************************************************************)
MaxStart == 1       \* startdate is drawn from 0..MaxStart
MaxSpan == 2        \* Spec: enddate - startdate is at most MaxSpan days
MaxAttempts == 2    \* max_n_attempts is drawn from 0..MaxAttempts
MaxWindows == 3     \* RangeSpec: ranges giving at most MaxWindows chunk starts

(***************************************************************************)
(* Markets and their chunk sizes.                                          *)
(***************************************************************************)
ValidMarkets == {"RT5", "RT15", "DA"}

chunk_period_of(m) ==
    CASE m = "RT5" -> 1
      [] m = "RT15" -> 15
      [] m = "DA" -> 30

chunk_period == chunk_period_of(market)

\* pd.date_range(start=s, end=e, freq=f'{p}D'): s, s+p, s+2p, ... while <= e
date_range(s, e, p) ==
    IF s > e THEN << >>
    ELSE [k \in 1..((e - s) \div p + 1) |-> s + (k - 1) * p]

NoDate == 0 - 1
NaN == 0 - 2
NoDf == [kind |-> "unset", cols |-> FALSE, rows |-> << >>]
NoFile == [exists |-> FALSE, rows |-> << >>]
NoReply == [kind |-> "unset", cols |-> FALSE, rows |-> << >>]
NoRun == [srs |-> << >>, file |-> NoFile, queried |-> {}]

(***************************************************************************)
(* Series: sequences of rows, sorted by timestamp the way sort_index does. *)
(* A table row is [t, typ, price]; a series row is [t, price].             *)
(***************************************************************************)
RECURSIVE insert_sorted(_, _)
insert_sorted(sorted, row) ==
    IF sorted = << >> THEN <<row>>
    ELSE IF row.t < Head(sorted).t
         THEN <<row>> \o sorted
         ELSE <<Head(sorted)>> \o insert_sorted(Tail(sorted), row)

RECURSIVE sort_index(_)
sort_index(rows) ==
    IF rows = << >> THEN << >>
    ELSE insert_sorted(sort_index(SubSeq(rows, 1, Len(rows) - 1)), rows[Len(rows)])

\* line 158 and 162: index by time, sort, keep the 'LMP' rows, take the price column
is_lmp(row) == row.typ = "LMP"

lmp_prices_unfiltered(rows) ==
    LET df2 == sort_index(rows)
    IN  [k \in 1..Len(df2) |-> [t |-> df2[k].t, price |-> df2[k].price]]

lmp_prices(rows) ==
    LET df2 == sort_index(rows)
        kept == SelectSeq(df2, is_lmp)
    IN  [k \in 1..Len(kept) |-> [t |-> kept[k].t, price |-> kept[k].price]]

\* line 164: result_srs.isna().any()
isna_any(srs) == \E k \in 1..Len(srs) : srs[k].price = NaN

\* line 163: results_dict[key] = srs (a dict keeps the position of a key it has)
dict_set(d, key, srs) ==
    IF \E k \in 1..Len(d) : d[k].key = key
    THEN [k \in 1..Len(d) |-> IF d[k].key = key THEN [key |-> key, srs |-> srs] ELSE d[k]]
    ELSE Append(d, [key |-> key, srs |-> srs])

RECURSIVE concat_values(_)
concat_values(d) ==
    IF d = << >> THEN << >> ELSE d[1].srs \o concat_values(Tail(d))

\* line 180: pd.concat(results_dict.values()).sort_index()
sorted_concat(d) == sort_index(concat_values(d))

(***************************************************************************)
(* What the upstream can answer to the query for [wts, wte].  A table has  *)
(* one 'MCC' and one 'LMP' row per day of the window, latest day first.    *)
(***************************************************************************)
table_rows(wts, wte, null_first) ==
    [k \in 1..(2 * (wte - wts)) |->
        LET t == wte - 1 - ((k - 1) \div 2)
        IN  IF k % 2 = 1
            THEN [t |-> t, typ |-> "MCC", price |-> 1]
            ELSE [t |-> t, typ |-> "LMP",
                  price |-> IF null_first /\ t = wts THEN NaN ELSE 10 + t]]

\* the full table with a null in the 'MCC' row of the first day
table_rows_null_mcc(wts, wte) ==
    [k \in 1..(2 * (wte - wts)) |->
        LET row == table_rows(wts, wte, FALSE)[k]
        IN  IF row.typ = "MCC" /\ row.t = wts THEN [row EXCEPT !.price = NaN] ELSE row]

http_reply(kind, cols, rows) == [kind |-> kind, cols |-> cols, rows |-> rows]

Replies(wts, wte) ==
    { http_reply("conn_error", FALSE, << >>),    \* requests.get raises
      http_reply("not_zip", FALSE, << >>),       \* body is no archive
      http_reply("error_xml", FALSE, << >>),     \* archive holding the error report
      http_reply("garbage", FALSE, << >>),       \* archive holding neither CSV nor the report
      http_reply("csv", FALSE, << >>),           \* CSV without the expected columns
      http_reply("csv", TRUE, table_rows(wts, wte, FALSE)),
      http_reply("csv", TRUE, table_rows(wts, wte, TRUE)),
      http_reply("csv", TRUE, table_rows_null_mcc(wts, wte)),
      http_reply("csv", TRUE,
                 table_rows(wts, IF wte > wts THEN wts + 1 ELSE wte, FALSE)) }

\* an upstream that has no data: every answer is the error report
NoDataReplies(wts, wte) == { http_reply("error_xml", FALSE, << >>) }

\* an upstream that answers every window with its sampling instants
FullReplies(wts, wte) == { http_reply("csv", TRUE, table_rows(wts, wte, FALSE)) }

\* the answers of the upstream of the given kind
Upstream(kind, wts, wte) ==
    CASE kind = "any" -> Replies(wts, wte)
      [] kind = "nodata" -> NoDataReplies(wts, wte)
      [] kind = "full" -> FullReplies(wts, wte)
      [] kind = "exact" -> FullReplies(wts, wte) \cup NoDataReplies(wts, wte)

\* lines 86-105
scrape_singlezip(r) ==
    CASE r.kind = "conn_error" -> [kind |-> "raise", cols |-> FALSE, rows |-> << >>]
      [] r.kind = "not_zip" -> [kind |-> "response", cols |-> FALSE, rows |-> << >>]
      [] r.kind = "csv" -> [kind |-> "table", cols |-> r.cols, rows |-> r.rows]
      [] r.kind = "error_xml" -> [kind |-> "none", cols |-> FALSE, rows |-> << >>]
      [] r.kind = "garbage" -> [kind |-> "raise", cols |-> FALSE, rows |-> << >>]

(***************************************************************************)
(* scrape_daterange.                                                       *)
(***************************************************************************)
InitLocals ==
    /\ chunk_starts = << >>
    /\ attempt_srs = << >>
    /\ completion_srs = << >>
    /\ result_srs = << >>
    /\ results_dict = << >>
    /\ i = 0
    /\ ts = NoDate
    /\ te = NoDate
    /\ df = NoDf
    /\ file = NoFile
    /\ n_fetch = << >>
    /\ queried = {}
    /\ warned = FALSE
    /\ n_sleep = 0
    /\ fetch_at = NoDate
    /\ response = NoReply
    /\ run = 1
    /\ first_run = NoRun

Entries == {"cli", "scrape_daterange", "get_query_params"}

\* where each entry starts: parse_args (called at line 219), scrape_daterange
\* (line 108), get_query_params (line 49)
entry_pc(e) ==
    CASE e = "cli" -> "parse"
      [] e = "scrape_daterange" -> "start"
      [] e = "get_query_params" -> "query"

\* the assertions of lines 30, 56 and 122
market_ok_unchecked(m) == TRUE

market_ok(m) == m \in ValidMarkets

\* a run with small ranges, any retry cap, any market string; main (lines
\* 204-211) does not pass cache_continuously, so the CLI runs with the default
Init ==
    /\ market \in ValidMarkets \cup {"XX"}
    /\ startdate \in 0..MaxStart
    /\ enddate \in (startdate - 1)..(startdate + MaxSpan)
    /\ max_n_attempts \in 0..MaxAttempts
    /\ cache_continuously \in BOOLEAN
    /\ entry \in Entries
    /\ entry = "cli" => cache_continuously
    /\ pc = entry_pc(entry)
    /\ InitLocals

\* lines 73 and 80: the window is longer than get_query_params expects for m
oversized(m, s, e) ==
    \/ m = "RT5" /\ e - s > 1
    \/ m = "RT15" /\ e - s > 15

\* lines 14-36 with a supported market: main calls scrape_daterange
ParseArgs ==
    /\ pc = "parse"
    /\ market_ok(market)
    /\ pc' = "start"
    /\ UNCHANGED <<args, session, chunk_starts, attempt_srs, completion_srs, result_srs,
                   results_dict, i, ts, te, df, file, n_fetch, queried, warned,
                   n_sleep, fetch_at, response>>

\* line 30: the assertion on market fails
ParseArgsInvalidMarket ==
    /\ pc = "parse"
    /\ ~market_ok(market)
    /\ pc' = "aborted"
    /\ UNCHANGED <<args, session, chunk_starts, attempt_srs, completion_srs, result_srs,
                   results_dict, i, ts, te, df, file, n_fetch, queried, warned,
                   n_sleep, fetch_at, response>>

\* lines 49-83 called directly on [startdate, enddate]: the parameters are returned
QueryParams ==
    /\ pc = "query"
    /\ market_ok(market)
    /\ warned' = oversized(market, startdate, enddate)
    /\ pc' = "params"
    /\ UNCHANGED <<args, session, chunk_starts, attempt_srs, completion_srs, result_srs,
                   results_dict, i, ts, te, df, file, n_fetch, queried, n_sleep, fetch_at, response>>

\* line 56: the assertion on market fails
QueryParamsInvalidMarket ==
    /\ pc = "query"
    /\ ~market_ok(market)
    /\ pc' = "aborted"
    /\ UNCHANGED <<args, session, chunk_starts, attempt_srs, completion_srs, result_srs,
                   results_dict, i, ts, te, df, file, n_fetch, queried, warned,
                   n_sleep, fetch_at, response>>

\* lines 122-134
Begin ==
    /\ pc = "start"
    /\ market_ok(market)
    /\ market \in ValidMarkets
    /\ LET starts == date_range(startdate, enddate, chunk_period)
           index == {starts[k] : k \in 1..Len(starts)}
       IN  /\ chunk_starts' = starts
           /\ attempt_srs' = [d \in index |-> 0]
           /\ completion_srs' = [d \in index |-> FALSE]
           /\ n_fetch' = [d \in index |-> 0]
    /\ result_srs' = << >>
    /\ results_dict' = << >>
    /\ i' = 0
    /\ pc' = "loop"
    /\ UNCHANGED <<args, session, ts, te, df, file, queried, warned, n_sleep, fetch_at, response>>

\* line 122: the assertion on market fails (and without it the lookup of line 125)
BeginInvalidMarket ==
    /\ pc = "start"
    /\ ~market_ok(market) \/ market \notin ValidMarkets
    /\ pc' = "aborted"
    /\ UNCHANGED <<args, session, chunk_starts, attempt_srs, completion_srs, result_srs,
                   results_dict, i, ts, te, df, file, n_fetch, queried, warned,
                   n_sleep, fetch_at, response>>

\* completion_srs.all()
all_complete(comp) == \A d \in DOMAIN comp : comp[d]

\* lines 142-147, for position k of the scan
window_start(starts, k) == starts[k + 1]

\* window_end without the clipping to enddate (a faulty variant)
window_end_unclipped(starts, k, e, p) == window_start(starts, k) + p

\* window_end without the chunking: every window runs to enddate (a faulty variant)
window_end_to_enddate(starts, k, e, p) == e

window_end(starts, k, e, p) ==
    IF e - window_start(starts, k) > p THEN starts[k + 2] ELSE e

\* next_i scanning downwards (a faulty variant)
next_i_backwards(k, n) == IF k > 0 THEN k - 1 ELSE n - 1

\* lines 170-173
next_i(k, n) == IF k < n - 1 THEN k + 1 ELSE 0

\* line 175
should_cache(cc, comp) == cc \/ all_complete(comp)

\* is_complete without the success case (a faulty variant)
is_complete_cap_only(attempts, cap) == attempts >= cap

\* line 190
is_complete(attempts, cap) == attempts < 0 \/ attempts >= cap

\* lines 157-169, on the value d that scrape_singlezip returned for chunk start c:
\* the new results_dict, result_srs and attempt count of c
usable(d) == d.kind = "table" /\ d.cols

after_try(d, c) ==
    IF usable(d)
    THEN LET srs == lmp_prices(d.rows)
         IN  [dict |-> dict_set(results_dict, c, srs),
              srs |-> srs,
              attempts |-> IF isna_any(srs) THEN attempt_srs[c] + 1 ELSE 0 - 1]
    ELSE [dict |-> results_dict,
          srs |-> result_srs,
          attempts |-> attempt_srs[c] + 1]

\* line 174: the number of time.sleep calls of one iteration
step_delays_after_fetch_only(fetched) == IF fetched THEN 1 ELSE 0

step_delays(fetched) == 1

\* to_csv that appends to the file it finds (a faulty variant)
to_csv_append(old, rows) == [exists |-> TRUE, rows |-> old.rows \o rows]

\* line 182: result_srs.to_csv(fpath) replaces the file
to_csv(old, rows) == [exists |-> TRUE, rows |-> rows]

\* lines 170-190: advance the scan, sleep, cache, re-evaluate completion of tsv
EndOfStep(dict, srs, attempts, tsv) ==
    /\ i' = next_i(i, Len(chunk_starts))
    /\ IF should_cache(cache_continuously, completion_srs) /\ dict # << >>
       THEN /\ result_srs' = sorted_concat(dict)
            /\ file' = to_csv(file, sorted_concat(dict))
       ELSE /\ result_srs' = srs
            /\ file' = file
    /\ results_dict' = dict
    /\ attempt_srs' = attempts
    /\ completion_srs' =
          [completion_srs EXCEPT ![tsv] = is_complete(attempts[tsv], max_n_attempts)]

\* one iteration of the loop that fetches chunk_starts[i] and gets a value back
StepFetch(upstream) ==
    /\ pc = "loop"
    /\ ~all_complete(completion_srs)
    /\ LET c == chunk_starts[i + 1]
           wts == window_start(chunk_starts, i)
           wte == window_end(chunk_starts, i, enddate, chunk_period)
       IN  /\ ~completion_srs[c]
           /\ \E r \in Upstream(upstream, wts, wte) :
                 LET d == scrape_singlezip(r)
                     a == after_try(d, c)
                 IN  /\ d.kind # "raise"
                     /\ response' = r
                     /\ df' = d
                     /\ EndOfStep(a.dict, a.srs,
                                  [attempt_srs EXCEPT ![wts] = a.attempts], wts)
           /\ ts' = wts
           /\ te' = wte
           /\ n_fetch' = [n_fetch EXCEPT ![c] = @ + 1]
           /\ queried' = queried \cup {[i |-> i, ts |-> wts, te |-> wte]}
           /\ warned' = (warned \/ oversized(market, wts, wte))
    /\ fetch_at' = n_sleep
    /\ n_sleep' = n_sleep + step_delays(TRUE)
    /\ UNCHANGED <<args, session, pc, chunk_starts>>

\* line 155 raises (requests.get, or the except branch of scrape_singlezip):
\* nothing in scrape_daterange catches it
StepFetchRaises(upstream) ==
    /\ pc = "loop"
    /\ ~all_complete(completion_srs)
    /\ LET c == chunk_starts[i + 1]
           wts == window_start(chunk_starts, i)
           wte == window_end(chunk_starts, i, enddate, chunk_period)
       IN  /\ ~completion_srs[c]
           /\ \E r \in Upstream(upstream, wts, wte) :
                 /\ scrape_singlezip(r).kind = "raise"
                 /\ response' = r
           /\ ts' = wts
           /\ te' = wte
           /\ n_fetch' = [n_fetch EXCEPT ![c] = @ + 1]
           /\ queried' = queried \cup {[i |-> i, ts |-> wts, te |-> wte]}
           /\ warned' = (warned \/ oversized(market, wts, wte))
    /\ fetch_at' = n_sleep
    /\ pc' = "aborted"
    /\ UNCHANGED <<args, session, chunk_starts, attempt_srs, completion_srs, result_srs,
                   results_dict, i, df, file, n_sleep>>

\* one iteration of the loop at a chunk whose completion flag is set
StepSkip ==
    /\ pc = "loop"
    /\ ~all_complete(completion_srs)
    /\ completion_srs[chunk_starts[i + 1]]
    /\ EndOfStep(results_dict, result_srs, attempt_srs, ts)
    /\ n_sleep' = n_sleep + step_delays(FALSE)
    /\ UNCHANGED <<args, session, pc, chunk_starts, ts, te, df, n_fetch, queried,
                   warned, fetch_at, response>>

\* lines 135 and 191: the loop condition fails and result_srs is returned
Return ==
    /\ pc = "loop"
    /\ all_complete(completion_srs)
    /\ pc' = "done"
    /\ UNCHANGED <<args, session, chunk_starts, attempt_srs, completion_srs, result_srs,
                   results_dict, i, ts, te, df, file, n_fetch, queried, warned,
                   n_sleep, fetch_at, response>>

Fetch == StepFetch("any")
FetchRaises == StepFetchRaises("any")

Next ==
    \/ ParseArgs \/ ParseArgsInvalidMarket
    \/ QueryParams \/ QueryParamsInvalidMarket
    \/ Begin \/ BeginInvalidMarket
    \/ Fetch \/ FetchRaises \/ StepSkip \/ Return

Spec == Init /\ [][Next]_vars

(***************************************************************************)
(* The same call over long ranges, against an upstream that has no data.   *)
(***************************************************************************)
RangeInit ==
    /\ market \in ValidMarkets
    /\ startdate \in 0..MaxStart
    /\ enddate \in startdate..(startdate + chunk_period_of(market) * MaxWindows - 1)
    /\ max_n_attempts \in 0..MaxAttempts
    /\ cache_continuously \in BOOLEAN
    /\ entry = "scrape_daterange"
    /\ pc = entry_pc(entry)
    /\ InitLocals

NoDataFetch == StepFetch("nodata")

RangeNext == Begin \/ NoDataFetch \/ Return

RangeSpec == RangeInit /\ [][RangeNext]_vars

(***************************************************************************)
(* Vocabulary of the properties.  A window is named by its chunk start.    *)
(* Its state is read off the attempt record the way line 190 reads it:     *)
(* succeeded when the count is negative, exhausted when the count has      *)
(* reached max_n_attempts, pending otherwise.                              *)
(***************************************************************************)
Index == DOMAIN attempt_srs

Succeeded(d) == attempt_srs[d] < 0
Exhausted(d) == attempt_srs[d] >= 0 /\ attempt_srs[d] >= max_n_attempts
Terminal(d) == Succeeded(d) \/ Exhausted(d)
AllTerminal == \A d \in Index : Terminal(d)

WindowState(d) ==
    IF Succeeded(d) THEN "succeeded" ELSE IF Exhausted(d) THEN "exhausted" ELSE "pending"

\* the loop test of line 135 fails, or has failed
LoopExits == pc = "done" \/ (pc = "loop" /\ all_complete(completion_srs))

\* a transition that is one iteration of the while loop
ScanStep == pc = "loop" /\ pc' # "done"

\* a transition that issued the HTTP request of chunk start d
Fetched(d) == n_fetch'[d] # n_fetch[d]

\* the value scrape_singlezip returned makes the try block of lines 157-166 fail
FetchFailed(d) == ~usable(d) \/ isna_any(lmp_prices(d.rows))

Times(rows) == {rows[k].t : k \in 1..Len(rows)}

(***************************************************************************)
(* C1.  The scan loop exits exactly when every window is succeeded or      *)
(* exhausted: while the loop runs some window is still pending, and when   *)
(* it has exited none is.  (That the loop exits at all, when every fetch   *)
(* returns, is C1_Terminates below.)                                       *)
(***************************************************************************)
C1_ExitsExactlyWhenAllTerminal ==
    pc \in {"loop", "done"} => (LoopExits <=> AllTerminal)

\* every fetch returns a value: the loop is left after finitely many steps
ReturningNext ==
    \/ ParseArgs \/ ParseArgsInvalidMarket
    \/ QueryParams \/ QueryParamsInvalidMarket
    \/ Begin \/ BeginInvalidMarket
    \/ Fetch \/ StepSkip \/ Return

ReturningFairSpec == Init /\ [][ReturningNext]_vars /\ WF_vars(ReturningNext)

C1_Terminates == <>(pc \in {"done", "aborted", "params"})

(***************************************************************************)
(* C2.  Every failure of one window's fetch is caught at the window level: *)
(* a step that issues a fetch stays in the loop, and when the fetch failed *)
(* the window is not succeeded and its attempt counter grew by one.        *)
(***************************************************************************)
C2_FailuresCaughtAtWindowLevel ==
    [][\A d \in Index :
          (pc = "loop" /\ Fetched(d))
          => /\ pc' = "loop"
             /\ FetchFailed(df') =>
                   /\ attempt_srs'[d] = attempt_srs[d] + 1
                   /\ ~(attempt_srs'[d] < 0)]_vars

(***************************************************************************)
(* C3.  In every scan step a window's attempt counter grows only when the  *)
(* window was fetched and the fetch failed, and then by exactly one; it    *)
(* does not grow when the fetch succeeded or the window was not fetched;   *)
(* and no scan step is taken once every window has succeeded or has an     *)
(* attempt count >= max_n_attempts.                                        *)
(***************************************************************************)
C3_AttemptAccounting ==
    [][ScanStep =>
          /\ ~AllTerminal
          /\ \A d \in Index :
                /\ attempt_srs'[d] > attempt_srs[d]
                      => /\ attempt_srs'[d] = attempt_srs[d] + 1
                         /\ Fetched(d)
                         /\ FetchFailed(df')
                /\ ~Fetched(d) => attempt_srs'[d] = attempt_srs[d]
                /\ (Fetched(d) /\ pc' = "loop" /\ ~FetchFailed(df'))
                      => attempt_srs'[d] < 0]_vars

(***************************************************************************)
(* C4.  A window leaves only the state pending, and a terminal window      *)
(* (succeeded or exhausted) is never fetched again and keeps its attempt   *)
(* record and its completion flag, also in the steps that skip it.         *)
(***************************************************************************)
C4_TerminalIsFrozen ==
    [][\A d \in Index :
          /\ WindowState(d)' # WindowState(d) => WindowState(d) = "pending"
          /\ Terminal(d) => /\ ~Fetched(d)
                            /\ attempt_srs'[d] = attempt_srs[d]
                            /\ completion_srs'[d] = completion_srs[d]]_vars

(***************************************************************************)
(* C5.  For start <= end the queried windows are one per chunk start, each *)
(* window ends where the next starts, the first starts at startdate, the   *)
(* last ends at enddate, none reaches past enddate, and every day of       *)
(* [startdate, enddate] lies in a window.                                  *)
(***************************************************************************)
C5_WindowsPartitionRange ==
    /\ \A q \in queried :
          /\ startdate <= q.ts /\ q.ts <= q.te /\ q.te <= enddate
          /\ q.i = 0 => q.ts = startdate
          /\ \A r \in queried : r.i = q.i => r = q
          /\ \A r \in queried : r.i = q.i + 1 => r.ts = q.te
    /\ (pc = "done" /\ startdate <= enddate) =>
          /\ \A k \in 0..(Len(chunk_starts) - 1) : \E q \in queried : q.i = k
          /\ \E q \in queried : q.i = Len(chunk_starts) - 1 /\ q.te = enddate
          /\ \A x \in startdate..enddate : \E q \in queried : q.ts <= x /\ x <= q.te

\* a day-ahead range of three windows whose last window is clipped
C5_Witness ==
    /\ pc = "done"
    /\ market = "DA"
    /\ Cardinality(queried) = 3
    /\ \E q \in queried : q.i = 2 /\ q.te = enddate /\ q.te - q.ts \in 1..29

(***************************************************************************)
(* C6.  When enddate - startdate is a positive whole multiple of the chunk *)
(* size, every queried window has the full chunk length (RT5 from day 0 to *)
(* day 2: three windows, each one day long).                               *)
(***************************************************************************)
C6_FullLengthWindows ==
    (market \in ValidMarkets /\ enddate > startdate
        /\ (enddate - startdate) % chunk_period = 0)
    => /\ \A q \in queried : q.te - q.ts = chunk_period
       /\ (pc = "done" /\ market = "RT5" /\ enddate - startdate = 2)
             => Cardinality(queried) = 3

(***************************************************************************)
(* C7.  When the range is shorter than the chunk size there is exactly one *)
(* window, [startdate, enddate], and once its first fetch has succeeded no *)
(* further fetch is issued: the run ends with one fetch.                   *)
(***************************************************************************)
ShortRange ==
    /\ market \in ValidMarkets
    /\ startdate <= enddate
    /\ enddate - startdate < chunk_period

FirstFetchSucceeded ==
    /\ pc \in {"loop", "done"}
    /\ n_fetch[startdate] = 1
    /\ attempt_srs[startdate] < 0

C7_ShortRangeOneWindowOneFetch ==
    [][ShortRange =>
          /\ pc' \in {"loop", "done", "aborted"} =>
                /\ Len(chunk_starts') = 1
                /\ queried' \subseteq {[i |-> 0, ts |-> startdate, te |-> enddate]}
          /\ FirstFetchSucceeded =>
                /\ FirstFetchSucceeded'
                /\ pc' = "done"]_vars

\* day-ahead, day 0 to day 2: returned after one successful fetch of [0, 2]
C7_Witness ==
    /\ pc = "done"
    /\ market = "DA"
    /\ startdate = 0
    /\ enddate = 2
    /\ queried = {[i |-> 0, ts |-> 0, te |-> 2]}
    /\ n_fetch[startdate] = 1
    /\ attempt_srs[startdate] < 0

(***************************************************************************)
(* C8.  With cache_continuously, after every scan step the file equals the *)
(* sorted concatenation of the stored sub-series, every timestamp the file *)
(* held is still in the file, and at return the file holds all that was    *)
(* stored.                                                                 *)
(***************************************************************************)
FileIsSortedConcat ==
    IF results_dict = << >> THEN ~file.exists
    ELSE file.exists /\ file.rows = sorted_concat(results_dict)

C8_CollectedDataStaysInFile ==
    [][(cache_continuously /\ pc = "loop") =>
          /\ pc' \in {"loop", "done"} => FileIsSortedConcat'
          /\ Times(file.rows) \subseteq Times(file'.rows)]_vars

\* the two parts of C8 that do not speak of earlier versions of the file
C8_FileFollowsStore ==
    (cache_continuously /\ (pc = "done" \/ (pc = "loop" /\ queried # {})))
        => FileIsSortedConcat

(***************************************************************************)
(* C9.  With cache_continuously = False, a run that returns with a stored  *)
(* sub-series has written the file, and the file is the sorted             *)
(* concatenation of the stored sub-series.                                 *)
(***************************************************************************)
C9_FileWrittenWithoutContinuousCaching ==
    (pc = "done" /\ ~cache_continuously /\ sorted_concat(results_dict) # << >>)
        => (file.exists /\ file.rows = sorted_concat(results_dict))

(***************************************************************************)
(* C10.  The returned value is the sorted concatenation of all stored      *)
(* sub-series, for both settings of cache_continuously.                    *)
(***************************************************************************)
C10_ReturnsSortedConcat ==
    pc = "done" => result_srs = sorted_concat(results_dict)

\* the same restricted to cache_continuously = True
C10_ReturnsSortedConcatWhenCaching ==
    (pc = "done" /\ cache_continuously) => result_srs = sorted_concat(results_dict)

(***************************************************************************)
(* The stored sub-series of a window.                                      *)
(***************************************************************************)
HasEntry(d) == \E k \in 1..Len(results_dict) : results_dict[k].key = d

Stored(d) ==
    LET k == CHOOSE n \in 1..Len(results_dict) : results_dict[n].key = d
    IN  results_dict[k].srs

\* the row of a series comes from an 'LMP' row of the table
FromLmpRow(row, rows) ==
    \E j \in 1..Len(rows) :
        rows[j].typ = "LMP" /\ rows[j].t = row.t /\ rows[j].price = row.price

\* C11: after every step, each succeeded window has a stored sub-series
\* without a null price, and the sub-series stored by the step that made a
\* window succeed holds only rows of the fetched table whose LMP_TYPE is 'LMP'.
C11_SucceededSeriesIsCleanLmp ==
    [][\A d \in DOMAIN attempt_srs' :
          attempt_srs'[d] < 0 =>
              /\ HasEntry(d)'
              /\ ~isna_any(Stored(d))'
              /\ Fetched(d) =>
                    \A k \in 1..Len(Stored(d)') : FromLmpRow(Stored(d)'[k], df'.rows)]_vars

\* a window succeeded on a table that carries a null in an 'MCC' row
C11_Witness ==
    /\ pc = "loop"
    /\ ts \in Index
    /\ Succeeded(ts)
    /\ HasEntry(ts)
    /\ Len(Stored(ts)) > 0
    /\ \E j \in 1..Len(df.rows) : df.rows[j].typ = "MCC" /\ df.rows[j].price = NaN

(***************************************************************************)
(* C12.  With a market outside RT5, RT15, DA every entry (the command      *)
(* line, scrape_daterange, get_query_params) fails at its first step, and  *)
(* no HTTP request has been issued and no file written.                    *)
(***************************************************************************)
NoRequestNoFile ==
    /\ n_fetch = << >>
    /\ queried = {}
    /\ fetch_at = NoDate
    /\ response = NoReply
    /\ file = NoFile

\* C12: an unsupported market makes the run fail at its first step, through
\* every entry, with no HTTP request issued and no output file written.
C12_UnsupportedMarketFailsFirst ==
    [][market \notin ValidMarkets => (pc' = "aborted" /\ NoRequestNoFile')]_vars

\* the command line was given an unsupported market and parse_args failed
C12_Witness ==
    /\ entry = "cli"
    /\ market = "XX"
    /\ pc = "aborted"
    /\ NoRequestNoFile

(***************************************************************************)
(* C13.  Every iteration of the loop that runs to its end sleeps once,     *)
(* whether it fetched (and the attempt succeeded or failed) or skipped,    *)
(* and every HTTP request but the first is preceded by a sleep made after  *)
(* the request before it.                                                  *)
(***************************************************************************)
IssuesRequest == \E d \in Index : Fetched(d)

\* C13: each completed scan step performs exactly one delay (fetch succeeded,
\* fetch failed, or window skipped), and at least one delay lies between any
\* two consecutive HTTP requests of a run.
C13_OneDelayPerStep ==
    [][pc = "loop" =>
          /\ pc' = "loop" => n_sleep' = n_sleep + 1
          /\ IssuesRequest => (fetch_at = NoDate \/ n_sleep > fetch_at)]_vars

\* two windows: the first succeeded, the second failed, the first was skipped
\* and the second fetched again
C13_Witness ==
    /\ pc = "loop"
    /\ Len(chunk_starts) = 2
    /\ Succeeded(chunk_starts[1])
    /\ n_fetch[chunk_starts[1]] = 1
    /\ n_fetch[chunk_starts[2]] = 2
    /\ n_sleep = 4
    /\ fetch_at = 3

(***************************************************************************)
(* C14.  An archive whose entry does not parse as CSV: the claim is that   *)
(* scrape_singlezip returns None and that the iteration counts a failed    *)
(* attempt, stores nothing and leaves the window to be fetched again       *)
(* unless the cap is reached.                                              *)
(***************************************************************************)
\* the response opened as an archive and its entry did not parse as CSV
NotCsvArchive(rp) == rp.kind \in {"error_xml", "garbage"}

\* what the claim says of a fetch of d that got the response rp' back
FailedAttempt(d) ==
    /\ pc' = "loop"
    /\ df'.kind = "none"
    /\ attempt_srs'[d] = attempt_srs[d] + 1
    /\ results_dict' = results_dict
    /\ ~Succeeded(d)'
    /\ attempt_srs'[d] < max_n_attempts => ~completion_srs'[d]
    /\ attempt_srs'[d] >= max_n_attempts => completion_srs'[d]

\* C14: whenever the response to a fetch opens as an archive whose entry does
\* not parse as CSV, scrape_singlezip returns None and the step is a failed
\* attempt: the count of the window goes up by one, nothing is stored, and
\* the window is left not complete unless its count reached max_n_attempts.
C14_NotCsvIsFailedAttempt ==
    [][\A d \in Index :
          (pc = "loop" /\ Fetched(d) /\ NotCsvArchive(response')) => FailedAttempt(d)]_vars

\* the part that holds: the same for an entry that is the error report
C14_ErrorReportIsFailedAttempt ==
    [][\A d \in Index :
          (pc = "loop" /\ Fetched(d) /\ response'.kind = "error_xml") => FailedAttempt(d)]_vars

\* a window answered with the error report twice, with nothing stored for it
C14_ErrorReportTwice ==
    /\ pc = "loop"
    /\ df.kind = "none"
    /\ response.kind = "error_xml"
    /\ ts \in Index
    /\ n_fetch[ts] = 2
    /\ attempt_srs[ts] = 2
    /\ ~HasEntry(ts)

(***************************************************************************)
(* C15.  An upstream that answers a window [ts, te] either with the        *)
(* sampling instants of the window (one sample per day from ts up to, not  *)
(* including, te) or with the error report.                                *)
(***************************************************************************)
ExactInit ==
    /\ Init
    /\ entry = "scrape_daterange"
    /\ market \in ValidMarkets

ExactFetch == StepFetch("exact")

ExactNext == Begin \/ ExactFetch \/ StepSkip \/ Return

ExactSpec == ExactInit /\ [][ExactNext]_vars

StrictlyIncreasing(srs) == \A k \in 1..(Len(srs) - 1) : srs[k].t < srs[k + 1].t

\* consecutive windows that both succeeded with samples: the first sample of
\* the later one is one sampling period after the last sample of the earlier
NoGapBetween(a, b) ==
    (/\ Succeeded(a) /\ Succeeded(b)
     /\ HasEntry(a) /\ HasEntry(b)
     /\ Len(Stored(a)) > 0 /\ Len(Stored(b)) > 0) =>
        Stored(b)[1].t - Stored(a)[Len(Stored(a))].t = 1

\* C15: with an upstream returning each window's sampling instants, the
\* sorted concatenation of the stored sub-series (and the file written from
\* it) has strictly increasing timestamps, so no timestamp is in two
\* windows, and two consecutive successful windows leave no gap larger than
\* the sampling period.
C15_MergedSeriesStrictlyIncreasing ==
    /\ StrictlyIncreasing(sorted_concat(results_dict))
    /\ StrictlyIncreasing(file.rows)
    /\ \A k \in 1..(Len(chunk_starts) - 1) :
          NoGapBetween(chunk_starts[k], chunk_starts[k + 1])

\* real-time 5 minute market, day 0 to day 2: windows [0, 1] and [1, 2] both
\* succeeded and the file holds the samples of day 0 and day 1
C15_Witness ==
    /\ market = "RT5"
    /\ startdate = 0
    /\ enddate = 2
    /\ pc = "loop"
    /\ Succeeded(0)
    /\ Succeeded(1)
    /\ HasEntry(0)
    /\ HasEntry(1)
    /\ Len(file.rows) = 2
    /\ Times(file.rows) = {0, 1}

(***************************************************************************)
(* C16.  The same call made twice against an upstream that answers every   *)
(* window with its full table.  The second call starts from fresh locals;  *)
(* the file of the first call is still on disk.                            *)
(***************************************************************************)
FullFetch == StepFetch("full")

\* scrape_daterange has returned and is called again with the same arguments
Rerun ==
    /\ pc = "done"
    /\ run = 1
    /\ run' = 2
    /\ first_run' = [srs |-> result_srs, file |-> file, queried |-> queried]
    /\ pc' = "start"
    /\ chunk_starts' = << >>
    /\ attempt_srs' = << >>
    /\ completion_srs' = << >>
    /\ result_srs' = << >>
    /\ results_dict' = << >>
    /\ i' = 0
    /\ ts' = NoDate
    /\ te' = NoDate
    /\ df' = NoDf
    /\ n_fetch' = << >>
    /\ queried' = {}
    /\ warned' = FALSE
    /\ n_sleep' = 0
    /\ fetch_at' = NoDate
    /\ response' = NoReply
    /\ UNCHANGED <<args, entry, file>>

RerunNext == Begin \/ FullFetch \/ Return \/ Rerun

RerunSpec == ExactInit /\ [][RerunNext]_vars

\* C16: with a deterministic upstream under which every window succeeds, a
\* second run with the same arguments queries the same windows, returns the
\* same series and leaves the same file content as the first; the file
\* rewritten from the same sub-series is unchanged.
C16_SecondRunSameResult ==
    (run = 2 /\ pc = "done") =>
        /\ queried = first_run.queried
        /\ result_srs = first_run.srs
        /\ file = first_run.file

\* real-time 5 minute market, day 0 to day 2, run twice with the file
\* rewritten after each query
C16_Witness ==
    /\ run = 2
    /\ pc = "done"
    /\ market = "RT5"
    /\ startdate = 0
    /\ enddate = 2
    /\ cache_continuously
    /\ Cardinality(queried) = 3
    /\ file.exists
    /\ Times(file.rows) = {0, 1}
    /\ file = first_run.file

(***************************************************************************)
(* C17.  The cap on fetches per window.                                    *)
(***************************************************************************)
FetchesWithinCap ==
    \A d \in DOMAIN n_fetch :
        /\ n_fetch[d] <= max_n_attempts
        /\ (pc = "done" /\ Exhausted(d)) => n_fetch[d] = max_n_attempts

\* C17: for every max_n_attempts >= 0, no window is fetched more than
\* max_n_attempts times, and a window that is exhausted when the run returns
\* has been fetched exactly max_n_attempts times.
C17_FetchesWithinCap == FetchesWithinCap

\* the part that holds: the same for every max_n_attempts >= 1
C17_FetchesWithinPositiveCap == max_n_attempts >= 1 => FetchesWithinCap

\* a window exhausted after max_n_attempts = 2 fetches
C17_ExhaustedAtCap ==
    /\ pc = "done"
    /\ max_n_attempts = 2
    /\ \E d \in Index : Exhausted(d) /\ n_fetch[d] = 2

(***************************************************************************)
(* C18.  Only succeeded windows have stored data, so no null price is in   *)
(* the stored sub-series, the file or the returned series.                 *)
(***************************************************************************)
\* C18: in every state only succeeded windows have an entry in results_dict,
\* and neither the stored sub-series nor the file nor result_srs holds a
\* null price.
C18_OnlySucceededStored ==
    /\ \A k \in 1..Len(results_dict) :
          /\ results_dict[k].key \in Index
          /\ Succeeded(results_dict[k].key)
          /\ ~isna_any(results_dict[k].srs)
    /\ ~isna_any(file.rows)
    /\ ~isna_any(result_srs)

\* the part that holds: a window without a usable table has no entry
C18_UnusableNotStored ==
    [][\A d \in Index :
          (pc = "loop" /\ pc' = "loop" /\ Fetched(d) /\ ~usable(df')) =>
              results_dict' = results_dict]_vars

\* the run returned with a null price in the file, from an exhausted window
C18_NullInFileAtReturn ==
    /\ pc = "done"
    /\ isna_any(file.rows)
    /\ \E d \in Index : Exhausted(d) /\ HasEntry(d) /\ isna_any(Stored(d))

(***************************************************************************)
(* C19.  The windows handed to get_query_params are never longer than the  *)
(* chunk of the market, so its advisory on long windows stays silent.      *)
(***************************************************************************)
\* C19: every window scrape_daterange passes to get_query_params has
\* ts <= te and te - ts <= the market's chunk (1, 15 or 30 days), and the
\* oversized-window advisory is never printed for such a query.
C19_WindowsWithinChunk ==
    entry = "scrape_daterange" =>
        /\ \A q \in queried :
              /\ q.ts <= q.te
              /\ q.te - q.ts <= chunk_period
              /\ ~oversized(market, q.ts, q.te)
        /\ ~warned

\* a 15 minute market range of more than two chunks: a full window of 15
\* days and its successor were queried and nothing was printed
C19_Witness ==
    /\ entry = "scrape_daterange"
    /\ market = "RT15"
    /\ enddate - startdate > 30
    /\ \E q \in queried : q.i = 0 /\ q.te - q.ts = 15
    /\ \E q \in queried : q.i = 1 /\ q.te - q.ts = 15
    /\ ~warned

(***************************************************************************)
(* C20.  The scan is round-robin in index order from the first window.     *)
(***************************************************************************)
\* position of a chunk start in chunk_starts, from 0
Pos(d) == (CHOOSE k \in 1..Len(chunk_starts) : chunk_starts[k] = d) - 1

Visited(d) == IF Pos(d) < i THEN 1 ELSE 0

\* the scan is at position (iterations made so far) mod (number of windows),
\* and two windows still to be fetched have the same number of fetches, but
\* for one more of the window the current pass has already visited
RoundRobin ==
    pc = "loop" =>
        /\ Len(chunk_starts) > 0 => i = n_sleep % Len(chunk_starts)
        /\ \A a, b \in Index :
              (~completion_srs[a] /\ ~completion_srs[b]) =>
                  n_fetch[a] - n_fetch[b] = Visited(a) - Visited(b)

\* an iteration fetches the window at the scan position if it is not
\* complete, and no other, and moves the scan to the next position
ScansInOrder ==
    (pc = "loop" /\ pc' # "done") =>
        /\ \A d \in Index :
              Fetched(d) <=> (d = chunk_starts[i + 1] /\ ~completion_srs[d])
        /\ pc' = "loop" => i' = (i + 1) % Len(chunk_starts)

====
